---------------------------- MODULE Spec2Model ----------------------------
(***************************************************************************)
(* A model of the connection layer of http3:                               *)
(*   - HTTP11Connection (src/http3/dispatch/http11.py), driving an h11     *)
(*     codec over a Reader/Writer pair, one exchange at a time;            *)
(*   - HTTP2Connection (src/http3/dispatch/http2.py), multiplexing several *)
(*     concurrent send calls over an h2 codec and a map of event queues.   *)
(*                                                                         *)
(* The codecs (h11, h2) are libraries the connections call; they are       *)
(* modelled by what the calls made in the source do: h11's two state       *)
(* machines with their event- and state-triggered transitions, keep-alive  *)
(* and body framing; h2's stream-id allocation, per-stream flow-control    *)
(* window and event production.  Requests that propose a protocol switch   *)
(* (CONNECT, Upgrade) are outside the model.                               *)
(*                                                                         *)
(* Every await of the source is a point where the coroutine may be         *)
(* suspended: a coroutine's position is a pc value and each action runs    *)
(* from one await to the next.  Bytes are modelled at event granularity:   *)
(* what a reader.read() delivers is chosen by the peer among the events it *)
(* may send next, the end of the stream, malformed bytes, or nothing       *)
(* before the read timeout.                                                *)
(***************************************************************************)
EXTENDS Integers, Sequences, FiniteSets

(***************************************************************************)
(* Bounds of the model.                                                    *)
(***************************************************************************)
\* send calls made on the HTTP/1.1 connection
MaxExchanges == 3
\* bytes of a response body (HTTP/1.1), and of a request body chunk
MaxBody == 2
\* bytes of a request body chunk handed to HTTP2Connection.send_data
MaxData == 3
\* the largest flow-control window of a stream
MaxWindow == 2
\* DATA frames of an HTTP/2 response
MaxResponseData == 1
\* SSLConfig instances
MaxConfigs == 2
\* load_ssl_context calls of one caller
MaxLoads == 2

\* the callers of HTTP2Connection.send: two concurrent tasks
Tasks == {"A", "B"}

VARIABLES
    \* ---- HTTP11Connection ----
    h11_state,      \* self.h11_state: the h11 codec (our/their state, keep-alive, body reader)
    writer_closed,  \* self.writer has been closed
    peer_closed,    \* the peer has closed the transport: reader.read() returns b""
    pc,             \* position of the send coroutine of the connection
    request,        \* the request being sent (chunks of body left to send)
    informational,  \* the InformationalResponse event send() has consumed, if any
    response,       \* the AsyncResponse send() returned last
    send_result,    \* how the last send() ended
    n_sends, n_returned, n_closed, n_release,  \* counts: send calls, responses returned, responses closed, on_release calls
    release_seen,   \* what the last on_release callback found the connection to be
    fin_in_body,    \* the peer closed after the response headers, before EndOfMessage
    wire_final,     \* what the peer sent as the final response of the current exchange
    \* ---- HTTP2Connection ----
    events,         \* self.events: stream id -> list of events
    initialized,    \* self.initialized
    h2_state,       \* self.h2_state: the h2 codec (next stream id, windows, closed streams)
    task,           \* each caller's coroutine: where it is suspended, its stream, its response
    peer,           \* what the server has sent on each stream
    released,       \* number of on_release calls
    lost,           \* streams an event of which found no queue (KeyError)
    foreign,        \* streams an event of which was read by the task of another stream
    concurrent,     \* a send was called while another request was in flight
    frames,         \* for each stream, the frames of the request handed to the writer
    reader_eof,     \* the peer has closed the transport: reader.read() returns b""
    \* ---- SSLConfig ----
    heap,           \* the SSLConfig instances, in order of construction: an instance is its index
    last_override,  \* the last with_overrides call: instance, arguments, instance returned
    loader,         \* each caller of load_ssl_context: where it is, its instance, what it got
    made            \* for each SSL context built, in order, the instance that built it

h1vars == <<h11_state, writer_closed, peer_closed, pc, request, informational,
            response, send_result, n_sends, n_returned, n_closed, n_release,
            release_seen, fin_in_body, wire_final>>

h2vars == <<events, initialized, h2_state, task, peer, released, lost, foreign, concurrent,
           frames, reader_eof>>

sslvars == <<heap, last_override, loader, made>>

vars == <<h1vars, h2vars, sslvars>>

(***************************************************************************)
(* h11: the codec's state machine (h11._state.ConnectionState) as          *)
(* HTTP11Connection drives it with our_role = CLIENT.                      *)
(***************************************************************************)
KeyError == "KeyError"

\* EVENT_TRIGGERED_TRANSITIONS[CLIENT]
ClientTransition(state, ev) ==
    CASE state = "IDLE" /\ ev = "Request" -> "SEND_BODY"
      [] state = "IDLE" /\ ev = "ConnectionClosed" -> "CLOSED"
      [] state = "SEND_BODY" /\ ev = "Data" -> "SEND_BODY"
      [] state = "SEND_BODY" /\ ev = "EndOfMessage" -> "DONE"
      [] state \in {"DONE", "MUST_CLOSE", "CLOSED"} /\ ev = "ConnectionClosed" -> "CLOSED"
      [] OTHER -> KeyError

\* EVENT_TRIGGERED_TRANSITIONS[SERVER]; "Request" is the (Request, CLIENT) trigger
ServerTransition(state, ev) ==
    CASE state = "IDLE" /\ ev = "Request" -> "SEND_RESPONSE"
      [] state = "IDLE" /\ ev = "ConnectionClosed" -> "CLOSED"
      [] state = "IDLE" /\ ev = "Response" -> "SEND_BODY"
      [] state = "SEND_RESPONSE" /\ ev = "InformationalResponse" -> "SEND_RESPONSE"
      [] state = "SEND_RESPONSE" /\ ev = "Response" -> "SEND_BODY"
      [] state = "SEND_BODY" /\ ev = "Data" -> "SEND_BODY"
      [] state = "SEND_BODY" /\ ev = "EndOfMessage" -> "DONE"
      [] state \in {"DONE", "MUST_CLOSE", "CLOSED"} /\ ev = "ConnectionClosed" -> "CLOSED"
      [] OTHER -> KeyError

\* one pass of the state-triggered rules: keep-alive disabled, then the joint-state table
StateTriggeredStep(s) ==
    LET a == IF s.keep_alive THEN s
             ELSE [s EXCEPT !.our_state = IF @ = "DONE" THEN "MUST_CLOSE" ELSE @,
                            !.their_state = IF @ = "DONE" THEN "MUST_CLOSE" ELSE @]
        joint == <<a.our_state, a.their_state>>
    IN  CASE joint \in {<<"CLOSED", "DONE">>, <<"CLOSED", "IDLE">>, <<"ERROR", "DONE">>}
               -> [a EXCEPT !.their_state = "MUST_CLOSE"]
          [] joint \in {<<"DONE", "CLOSED">>, <<"IDLE", "CLOSED">>, <<"DONE", "ERROR">>}
               -> [a EXCEPT !.our_state = "MUST_CLOSE"]
          [] OTHER -> a

RECURSIVE FireStateTriggeredTransitions(_)
\* the rules are applied until a fixed point is reached
FireStateTriggeredTransitions(s) ==
    LET t == StateTriggeredStep(s)
    IN  IF t = s THEN s ELSE FireStateTriggeredTransitions(t)

\* ConnectionState.process_error(role)
ProcessError(s, role) ==
    FireStateTriggeredTransitions(
        IF role = "CLIENT" THEN [s EXCEPT !.our_state = "ERROR"]
        ELSE [s EXCEPT !.their_state = "ERROR"])

\* ConnectionState.process_event(role, type(event)) followed by the keep-alive
\* handling of Connection._process_event; ok = FALSE is LocalProtocolError
ProcessEvent(s, role, ev) ==
    LET \* the role's own transition
        Own(new) ==
            IF new = KeyError THEN [ok |-> FALSE, s |-> s]
            ELSE [ok |-> TRUE, s |-> IF role = "CLIENT" THEN [s EXCEPT !.our_state = new]
                                     ELSE [s EXCEPT !.their_state = new]]
        \* the server's state also sees our Request
        Seen(r, srv) ==
            IF ~r.ok \/ ev.type # "Request" THEN r
            ELSE IF srv = KeyError THEN [ok |-> FALSE, s |-> r.s]
            ELSE [ok |-> TRUE, s |-> [r.s EXCEPT !.their_state = srv]]
        \* a message with Connection: close disables keep-alive
        KeepAlive(r) ==
            IF ~r.ok THEN r
            ELSE [ok |-> TRUE,
                  s |-> FireStateTriggeredTransitions(
                          IF ev.type \in {"Request", "Response"} /\ ev.close
                          THEN [r.s EXCEPT !.keep_alive = FALSE] ELSE r.s)]
    IN  KeepAlive(Seen(Own(IF role = "CLIENT" THEN ClientTransition(s.our_state, ev.type)
                           ELSE ServerTransition(s.their_state, ev.type)),
                       ServerTransition(s.their_state, "Request")))

\* h11.Connection.send(event): raised = TRUE is LocalProtocolError
H11Send(s, ev) ==
    LET Outcome(r) == IF r.ok THEN [raised |-> FALSE, s |-> r.s]
                      ELSE [raised |-> TRUE, s |-> ProcessError(r.s, "CLIENT")]
    IN  IF s.our_state = "ERROR" THEN [raised |-> TRUE, s |-> s]
        ELSE Outcome(ProcessEvent(s, "CLIENT", ev))

\* h11.Connection.start_next_cycle(), called with both sides DONE
StartNextCycle(s) ==
    [s EXCEPT !.our_state = "IDLE", !.their_state = "IDLE",
              !.reader = "none", !.remaining = 0]

\* the body framing h11 derives from a response: 204 has none, whatever its headers
BodyFraming(w) ==
    IF w.status = 204 THEN [reader |-> "content-length", remaining |-> 0]
    ELSE [reader |-> w.framing, remaining |-> IF w.framing = "content-length" THEN w.length ELSE 0]

\* the codec installs the reader of the response body
WithReader(s, f) == [s EXCEPT !.reader = f.reader, !.remaining = f.remaining]

Framings == {"content-length", "chunked", "http/1.0"}

\* What the reader can deliver to a _receive_event call, by the codec's state:
\*   Timeout: nothing within the read timeout;  EOF: read() returns b"";
\*   Garbage: bytes the codec cannot parse;  None: the codec needs no bytes.
\*   room: the bytes of body the peer may still send (the bound of the model).
Wire(s, fin, room) ==
    IF s.their_state = "SEND_RESPONSE" THEN
        IF fin THEN {[kind |-> "EOF"]}
        ELSE {[kind |-> "Timeout"], [kind |-> "Garbage"],
              [kind |-> "InformationalResponse", status |-> 100, headers |-> "informational"]}
             \cup {[kind |-> "Response", status |-> st, headers |-> "final",
                    framing |-> f, length |-> n, close |-> c] :
                      st \in {200, 204}, f \in Framings, n \in 0..MaxBody, c \in BOOLEAN}
    ELSE IF s.their_state = "SEND_BODY" THEN
        IF s.reader = "content-length" /\ s.remaining = 0 THEN {[kind |-> "None"]}
        ELSE IF fin THEN {[kind |-> "EOF"]}
        ELSE {[kind |-> "Timeout"]}
             \cup {[kind |-> "Data", length |-> k] :
                      k \in 1..(IF s.reader = "content-length" THEN s.remaining
                                ELSE IF room > 0 THEN 1 ELSE 0)}
             \cup (IF s.reader = "chunked" THEN {[kind |-> "LastChunk"], [kind |-> "Garbage"]} ELSE {})
    ELSE {[kind |-> "EOF"]}

\* an event of the peer, processed by next_event(): a KeyError of the state
\* machine is re-raised as RemoteProtocolError with their state ERROR
TheirEvent(s, ev) ==
    LET Outcome(r) ==
            IF r.ok THEN [raised |-> "none", event |-> ev, s |-> r.s]
            ELSE [raised |-> "RemoteProtocolError", event |-> ev,
                  s |-> ProcessError(r.s, "SERVER")]
    IN  Outcome(ProcessEvent(s, "SERVER", ev))

RemoteError(s) ==
    [raised |-> "RemoteProtocolError", event |-> [type |-> "none"], s |-> ProcessError(s, "SERVER")]

\* a _receive_event whose body readers take the end of the stream for the end of
\* the message, whatever the framing
ReceiveEventEofEndsBody(s, w) ==
    IF s.their_state = "SEND_BODY" /\ w.kind = "EOF"
    THEN TheirEvent(s, [type |-> "EndOfMessage"])
    ELSE IF w.kind = "Timeout" THEN
        [raised |-> "ReadTimeout", event |-> [type |-> "none"], s |-> s]
    ELSE IF w.kind = "Garbage" THEN RemoteError(s)
    ELSE IF s.their_state = "SEND_RESPONSE" THEN
        CASE w.kind = "InformationalResponse" ->
                TheirEvent(s, [type |-> "InformationalResponse", status_code |-> w.status,
                               headers |-> w.headers])
          [] w.kind = "Response" ->
                TheirEvent(WithReader(s, BodyFraming(w)),
                           [type |-> "Response", status_code |-> w.status,
                            headers |-> w.headers, close |-> w.close])
          [] OTHER -> TheirEvent(s, [type |-> "ConnectionClosed"])
    ELSE CASE s.reader = "content-length" /\ s.remaining = 0 ->
                TheirEvent(s, [type |-> "EndOfMessage"])
          [] w.kind = "Data" ->
                TheirEvent([s EXCEPT !.remaining = IF s.reader = "content-length"
                                                   THEN @ - w.length ELSE @],
                           [type |-> "Data", length |-> w.length])
          [] w.kind = "LastChunk" -> TheirEvent(s, [type |-> "EndOfMessage"])
          [] OTHER -> RemoteError(s)

\* HTTP11Connection._receive_event: next_event(), reading while it returns NEED_DATA
ReceiveEvent(s, w) ==
    IF s.their_state = "ERROR" THEN
        [raised |-> "RemoteProtocolError", event |-> [type |-> "none"], s |-> s]
    ELSE IF w.kind = "Timeout" THEN
        [raised |-> "ReadTimeout", event |-> [type |-> "none"], s |-> s]
    ELSE IF w.kind = "Garbage" THEN RemoteError(s)
    ELSE IF s.their_state = "SEND_RESPONSE" THEN
        CASE w.kind = "InformationalResponse" ->
                TheirEvent(s, [type |-> "InformationalResponse", status_code |-> w.status,
                               headers |-> w.headers])
          [] w.kind = "Response" ->
                TheirEvent(WithReader(s, BodyFraming(w)),
                           [type |-> "Response", status_code |-> w.status,
                            headers |-> w.headers, close |-> w.close])
          [] OTHER -> TheirEvent(s, [type |-> "ConnectionClosed"])
    ELSE IF s.their_state = "SEND_BODY" THEN
        CASE s.reader = "content-length" /\ s.remaining = 0 ->
                TheirEvent(s, [type |-> "EndOfMessage"])
          [] w.kind = "Data" ->
                TheirEvent([s EXCEPT !.remaining = IF s.reader = "content-length"
                                                   THEN @ - w.length ELSE @],
                           [type |-> "Data", length |-> w.length])
          [] w.kind = "LastChunk" -> TheirEvent(s, [type |-> "EndOfMessage"])
          [] w.kind = "EOF" /\ s.reader = "http/1.0" -> TheirEvent(s, [type |-> "EndOfMessage"])
          [] OTHER -> RemoteError(s)
    ELSE TheirEvent(s, [type |-> "ConnectionClosed"])

\* HTTP11Connection.is_closed
IsClosed(s) == s.our_state \in {"CLOSED", "ERROR"}

\* HTTP11Connection.close(): raised = TRUE when the codec refuses ConnectionClosed,
\* and then the writer is not closed
Close(s, wc) ==
    LET Outcome(r) ==
            [raised |-> r.raised, s |-> r.s, writer_closed |-> IF r.raised THEN wc ELSE TRUE]
    IN  Outcome(H11Send(s, [type |-> "ConnectionClosed"]))

\* a response_closed that notifies the pool only of a connection it keeps
ResponseClosedReleaseOnReuse(s, wc) ==
    IF s.our_state = "DONE" /\ s.their_state = "DONE"
    THEN [raised |-> FALSE, s |-> StartNextCycle(s), writer_closed |-> wc, released |-> 1]
    ELSE LET Outcome(c) ==
                 [raised |-> c.raised, s |-> c.s, writer_closed |-> c.writer_closed,
                  released |-> 0]
         IN  Outcome(Close(s, wc))

\* a response_closed that leaves a connection it cannot reuse as it is
ResponseClosedWithoutClose(s, wc) ==
    IF s.our_state = "DONE" /\ s.their_state = "DONE"
    THEN [raised |-> FALSE, s |-> StartNextCycle(s), writer_closed |-> wc, released |-> 1]
    ELSE [raised |-> FALSE, s |-> s, writer_closed |-> wc, released |-> 1]

\* a response_closed that looks at our side of the codec only
ResponseClosedOurSideOnly(s, wc) ==
    IF s.our_state = "DONE"
    THEN [raised |-> FALSE, s |-> StartNextCycle(s), writer_closed |-> wc, released |-> 1]
    ELSE LET Outcome(c) ==
                 [raised |-> c.raised, s |-> c.s, writer_closed |-> c.writer_closed,
                  released |-> IF c.raised THEN 0 ELSE 1]
         IN  Outcome(Close(s, wc))

\* HTTP11Connection.response_closed: the reuse-or-close decision, then on_release
\* (released = the number of on_release calls it makes)
ResponseClosed(s, wc) ==
    IF s.our_state = "DONE" /\ s.their_state = "DONE"
    THEN [raised |-> FALSE, s |-> StartNextCycle(s), writer_closed |-> wc, released |-> 1]
    ELSE LET Outcome(c) ==
                 [raised |-> c.raised, s |-> c.s, writer_closed |-> c.writer_closed,
                  released |-> IF c.raised THEN 0 ELSE 1]
         IN  Outcome(Close(s, wc))

(***************************************************************************)
(* HTTP11Connection: initial state and actions.                            *)
(***************************************************************************)
NoResponse == [state |-> "none", status_code |-> 0, headers |-> "none",
               body |-> "none", received |-> 0, framing |-> "none", promised |-> 0]

NoEvent == [type |-> "none"]

InitH1 ==
    /\ h11_state = [our_state |-> "IDLE", their_state |-> "IDLE", keep_alive |-> TRUE,
                    reader |-> "none", remaining |-> 0]
    /\ writer_closed = FALSE
    /\ peer_closed = FALSE
    /\ pc = "idle"
    /\ request = [body |-> 0]
    /\ informational = NoEvent
    /\ response = NoResponse
    /\ send_result = "none"
    /\ n_sends = 0 /\ n_returned = 0 /\ n_closed = 0 /\ n_release = 0
    /\ release_seen = "none"
    /\ fin_in_body = FALSE
    /\ wire_final = NoEvent

\* send() fails with exception exc: the coroutine ends, nothing else is done
SendFails(exc) ==
    /\ pc' = "idle"
    /\ send_result' = exc

\* writer.write(data, timeout): completes, or raises WriteTimeout
WriteOutcomes == {"ok", "WriteTimeout"}

\* send(), lines 43-53: the Request event.  The caller has finished with the
\* previous response (one exchange at a time).
SendRequest ==
    /\ pc = "idle" /\ response.state # "open" /\ n_sends < MaxExchanges
    /\ \E body \in 0..MaxBody, close \in BOOLEAN, wr \in WriteOutcomes :
         \E r \in {H11Send(h11_state, [type |-> "Request", close |-> close])} :
             /\ h11_state' = r.s
             /\ request' = [body |-> body]
             /\ IF r.raised THEN SendFails("LocalProtocolError")
                ELSE IF wr # "ok" THEN SendFails(wr)
                ELSE pc' = "send_body" /\ send_result' = "pending"
    /\ n_sends' = n_sends + 1
    /\ informational' = NoEvent
    /\ response' = NoResponse
    /\ fin_in_body' = FALSE
    /\ wire_final' = NoEvent
    /\ UNCHANGED <<writer_closed, peer_closed, n_returned, n_closed, n_release, release_seen>>
    /\ UNCHANGED <<h2vars, sslvars>>

\* send(), lines 56-58: one chunk of the request body
SendData ==
    /\ pc = "send_body" /\ request.body > 0
    /\ \E wr \in WriteOutcomes :
         \E r \in {H11Send(h11_state, [type |-> "Data"])} :
             /\ h11_state' = r.s
             /\ IF r.raised THEN SendFails("LocalProtocolError") /\ UNCHANGED request
                ELSE IF wr # "ok" THEN SendFails(wr) /\ UNCHANGED request
                ELSE /\ request' = [request EXCEPT !.body = @ - 1]
                     /\ UNCHANGED <<pc, send_result>>
    /\ UNCHANGED <<writer_closed, peer_closed, informational, response, n_sends, n_returned,
                   n_closed, n_release, release_seen, fin_in_body, wire_final>>
    /\ UNCHANGED <<h2vars, sslvars>>

\* send(), lines 61-62: EndOfMessage
SendEndOfMessage ==
    /\ pc = "send_body" /\ request.body = 0
    /\ \E wr \in WriteOutcomes :
         \E r \in {H11Send(h11_state, [type |-> "EndOfMessage"])} :
             /\ h11_state' = r.s
             /\ IF r.raised THEN SendFails("LocalProtocolError")
                ELSE IF wr # "ok" THEN SendFails(wr)
                ELSE pc' = "receive" /\ UNCHANGED send_result
    /\ UNCHANGED <<writer_closed, peer_closed, request, informational, response, n_sends,
                   n_returned, n_closed, n_release, release_seen, fin_in_body, wire_final>>
    /\ UNCHANGED <<h2vars, sslvars>>

\* a send() that keeps the event it received first
ReturnResponseOfFirstEvent(ev) ==
    IF ev.type = "Response"
    THEN /\ response' = [state |-> "open",
                         status_code |-> IF informational = NoEvent THEN ev.status_code
                                         ELSE informational.status_code,
                         headers |-> IF informational = NoEvent THEN ev.headers
                                     ELSE informational.headers,
                         body |-> "unread", received |-> 0,
                         framing |-> h11_state'.reader, promised |-> h11_state'.remaining]
         /\ pc' = "idle"
         /\ send_result' = "returned"
         /\ n_returned' = n_returned + 1
    ELSE /\ SendFails("AssertionError")
         /\ UNCHANGED <<response, n_returned>>

\* send(), lines 69-81: the event must be a Response; the AsyncResponse is returned
ReturnResponse(ev) ==
    IF ev.type = "Response"
    THEN /\ response' = [state |-> "open", status_code |-> ev.status_code,
                         headers |-> ev.headers, body |-> "unread", received |-> 0,
                         framing |-> h11_state'.reader, promised |-> h11_state'.remaining]
         /\ pc' = "idle"
         /\ send_result' = "returned"
         /\ n_returned' = n_returned + 1
    ELSE /\ SendFails("AssertionError")
         /\ UNCHANGED <<response, n_returned>>

\* the ghost record of the peer's final response, or of the informational
\* response the peer sent where send() expects the final one
NoteFinal(w) ==
    wire_final' = IF w.kind = "Response" \/ (w.kind = "InformationalResponse" /\ pc = "receive_final")
                  THEN [type |-> w.kind, status_code |-> w.status, headers |-> w.headers]
                  ELSE wire_final

\* send(), lines 65-66: the first event of the response
ReceiveFirst ==
    /\ pc = "receive"
    /\ \E w \in Wire(h11_state, peer_closed, MaxBody) :
         \E r \in {ReceiveEvent(h11_state, w)} :
             /\ h11_state' = r.s
             /\ NoteFinal(w)
             /\ IF r.raised # "none"
                THEN SendFails(r.raised) /\ UNCHANGED <<response, n_returned, informational>>
                ELSE IF r.event.type = "InformationalResponse"
                THEN /\ pc' = "receive_final"
                     /\ informational' = r.event
                     /\ UNCHANGED <<response, n_returned, send_result>>
                ELSE ReturnResponse(r.event) /\ UNCHANGED informational
    /\ UNCHANGED <<writer_closed, peer_closed, request, n_sends, n_closed, n_release,
                   release_seen, fin_in_body>>
    /\ UNCHANGED <<h2vars, sslvars>>

\* send(), line 67: the event after an InformationalResponse
ReceiveFinal ==
    /\ pc = "receive_final"
    /\ \E w \in Wire(h11_state, peer_closed, MaxBody) :
         \E r \in {ReceiveEvent(h11_state, w)} :
             /\ h11_state' = r.s
             /\ NoteFinal(w)
             /\ IF r.raised # "none"
                THEN SendFails(r.raised) /\ UNCHANGED <<response, n_returned>>
                ELSE ReturnResponse(r.event)
    /\ UNCHANGED <<writer_closed, peer_closed, request, informational, n_sends, n_closed,
                   n_release, release_seen, fin_in_body>>
    /\ UNCHANGED <<h2vars, sslvars>>

\* _body_iter: the consumer pulls the next chunk of the response body
BodyNext ==
    /\ pc = "idle" /\ response.state = "open" /\ response.body \in {"unread", "streaming"}
    /\ ~writer_closed
    /\ \E w \in Wire(h11_state, peer_closed, MaxBody - response.received) :
         \E r \in {ReceiveEvent(h11_state, w)} :
             /\ h11_state' = r.s
             /\ response' =
                  IF r.raised # "none" THEN [response EXCEPT !.body = r.raised]
                  ELSE IF r.event.type = "Data"
                  THEN [response EXCEPT !.body = "streaming", !.received = @ + r.event.length]
                  ELSE IF r.event.type = "EndOfMessage" THEN [response EXCEPT !.body = "ended"]
                  ELSE [response EXCEPT !.body = "AssertionError"]
    /\ UNCHANGED <<writer_closed, peer_closed, pc, request, informational, send_result, n_sends,
                   n_returned, n_closed, n_release, release_seen, fin_in_body, wire_final>>
    /\ UNCHANGED <<h2vars, sslvars>>

\* a body read after the connection was closed: the read fails
BodyNextAfterClose ==
    /\ pc = "idle" /\ response.state = "open" /\ response.body \in {"unread", "streaming"}
    /\ writer_closed
    /\ response' = [response EXCEPT !.body = "ReadError"]
    /\ UNCHANGED <<h11_state, writer_closed, peer_closed, pc, request, informational,
                   send_result, n_sends, n_returned, n_closed, n_release, release_seen,
                   fin_in_body, wire_final>>
    /\ UNCHANGED <<h2vars, sslvars>>

\* what on_release (the pool) finds: a connection ready for the next cycle, a
\* closed one, or neither
Observed(s, wc) ==
    IF wc THEN "closed"
    ELSE IF s.our_state = "IDLE" /\ s.their_state = "IDLE" THEN "reusable"
    ELSE "undecided"

\* AsyncResponse.close(): the response is closed once, consumed or abandoned, and
\* calls its on_close hook, response_closed
ResponseClose ==
    /\ pc = "idle" /\ response.state = "open"
    /\ \E r \in {ResponseClosed(h11_state, writer_closed)} :
           /\ h11_state' = r.s
           /\ writer_closed' = r.writer_closed
           /\ n_release' = n_release + r.released
           /\ release_seen' = IF r.released > 0 THEN Observed(r.s, r.writer_closed)
                              ELSE release_seen
    /\ response' = [response EXCEPT !.state = "closed"]
    /\ n_closed' = n_closed + 1
    /\ UNCHANGED <<peer_closed, pc, request, informational, send_result, n_sends, n_returned,
                   fin_in_body, wire_final>>
    /\ UNCHANGED <<h2vars, sslvars>>

\* HTTP11Connection.close(), called by the owner of the connection between operations
CloseConnection ==
    /\ pc = "idle" /\ ~writer_closed
    /\ \E c \in {Close(h11_state, writer_closed)} :
           h11_state' = c.s /\ writer_closed' = c.writer_closed
    /\ UNCHANGED <<peer_closed, pc, request, informational, response, send_result, n_sends,
                   n_returned, n_closed, n_release, release_seen, fin_in_body, wire_final>>
    /\ UNCHANGED <<h2vars, sslvars>>

\* the peer closes the transport: from now on reader.read() returns b""
PeerCloses ==
    /\ ~peer_closed
    /\ peer_closed' = TRUE
    /\ fin_in_body' = (/\ response.state = "open"
                        /\ response.body \in {"unread", "streaming"}
                        /\ h11_state.their_state = "SEND_BODY")
    /\ UNCHANGED <<h11_state, writer_closed, pc, request, informational, response, send_result,
                   n_sends, n_returned, n_closed, n_release, release_seen, wire_final>>
    /\ UNCHANGED <<h2vars, sslvars>>

NextH1 ==
    \/ SendRequest
    \/ SendData
    \/ SendEndOfMessage
    \/ ReceiveFirst
    \/ ReceiveFinal
    \/ BodyNext
    \/ BodyNextAfterClose
    \/ ResponseClose
    \/ CloseConnection
    \/ PeerCloses

(***************************************************************************)
(* HTTP2Connection.                                                        *)
(*                                                                         *)
(* A task is suspended at one of the awaits of the source; its pc names    *)
(* the await:                                                              *)
(*   init       send() not called yet                                      *)
(*   w_headers  writer.write in send_headers              (line 92)        *)
(*   body       the next chunk of request.stream()        (line 39)        *)
(*   w_data     writer.write in send_data                 (line 104)       *)
(*   w_end      writer.write in end_stream                (line 109)       *)
(*   r_send, w_send   reader.read / writer.write in receive_event, called  *)
(*              from send()                               (lines 126, 133) *)
(*   returned   the consumer holds the response, or a chunk of its body    *)
(*   r_body, w_body   reader.read / writer.write in receive_event, called  *)
(*              from body_iter                                             *)
(*   ended      body_iter has ended                                        *)
(*   failed     send() or body_iter has raised task.exc                    *)
(* An action runs a task from the await it is suspended at to the next.    *)
(***************************************************************************)
\* get_next_available_stream_id(): odd, increasing
StreamIds == {2 * i - 1 : i \in 1..Cardinality(Tasks)}

\* an event of h2.events; stream_id 0: the event has no stream (SETTINGS, PING);
\* seq numbers the events of a stream in the order the peer sent them
Event(type, sid, seq) == [type |-> type, stream_id |-> sid, seq |-> seq]

\* request.stream(): no chunk, or one chunk of 0..MaxData bytes
Bodies == {<<>>} \cup {<<n>> : n \in 0..MaxData}

\* the initial flow-control window of a stream, from the peer's SETTINGS
Windows == 0..MaxWindow

\* a frame of a request, as the codec serialises it
Frame(type, len, end_stream) == [type |-> type, len |-> len, end_stream |-> end_stream]

NoFrame == [len |-> 0, window |-> 0]

InitH2 ==
    /\ events = [s \in {} |-> <<>>]
    /\ initialized = FALSE
    /\ \E w \in Windows :
         h2_state = [next_stream_id |-> 1, initial_window |-> w,
                     window |-> [s \in StreamIds |-> 0], closed |-> {}]
    /\ \E b \in [Tasks -> Bodies] :
         task = [t \in Tasks |-> [pc |-> "init", stream_id |-> 0, body |-> b[t], data |-> 0,
                                  idx |-> 0, chunk_size |-> 0, frame |-> NoFrame,
                                  exc |-> "none", key |-> 0, resp |-> "none",
                                  got |-> <<>>]]
    /\ peer = [s \in StreamIds |-> [state |-> "idle", sent |-> 0, data |-> 0]]
    /\ released = 0
    /\ lost = {}
    /\ foreign = {}
    /\ frames = [s \in StreamIds |-> <<>>]
    /\ reader_eof = FALSE
    /\ concurrent = FALSE

\* the task raises exc
Raise(tk, exc) == [tk EXCEPT !.pc = "failed", !.exc = exc]

Min(a, b) == IF a < b THEN a ELSE b

\* h2_state.local_flow_control_window(stream_id)
LocalFlowControlWindow(h, sid) == h.window[sid]

\* h2_state.send_data(stream_id, chunk): the codec refuses a frame larger than
\* the window, and any frame on a stream that was reset
H2SendData(h, sid, n) ==
    IF sid \in h.closed THEN [exc |-> "StreamClosedError", h |-> h]
    ELSE IF n > h.window[sid] THEN [exc |-> "FlowControlError", h |-> h]
    ELSE [exc |-> "none", h |-> [h EXCEPT !.window[sid] = @ - n]]

\* h2_state.receive_data(data): the codec's own reaction to an event
H2ReceiveData(h, e) ==
    CASE e.type = "WindowUpdated" -> [h EXCEPT !.window[e.stream_id] = @ + 1]
      [] e.type = "StreamReset" -> [h EXCEPT !.closed = @ \cup {e.stream_id}]
      [] OTHER -> h

\* receive_event lines 128-130, with every event put on the reader's own queue
RouteToOwnQueue(evs, e, own) ==
    IF e.stream_id = 0 THEN [ok |-> TRUE, events |-> evs]
    ELSE [ok |-> TRUE, events |-> [evs EXCEPT ![own] = Append(@, e)]]

\* receive_event lines 128-130: an event that has a stream id is appended to the
\* queue of that stream; ok = FALSE is the KeyError of a stream with no queue
Route(evs, e, own) ==
    IF e.stream_id = 0 THEN [ok |-> TRUE, events |-> evs]
    ELSE IF e.stream_id \notin DOMAIN evs THEN [ok |-> FALSE, events |-> evs]
    ELSE [ok |-> TRUE, events |-> [evs EXCEPT ![e.stream_id] = Append(@, e)]]

\* self.events[stream_id] = []
Register(evs, sid) == [s \in DOMAIN evs \cup {sid} |-> IF s = sid THEN <<>> ELSE evs[s]]

\* HTTP2Connection.response_closed: del self.events[stream_id], then on_release
\* if the map is empty
H2ResponseClosed(evs, sid) ==
    [events |-> [s \in DOMAIN evs \ {sid} |-> evs[s]],
     released |-> IF DOMAIN evs \ {sid} = {} THEN 1 ELSE 0]

\* the events a caller of receive_event stops at: send() at ResponseReceived,
\* body_iter at the events it yields or ends on
StopsAt(ctx) ==
    IF ctx = "send" THEN {"ResponseReceived"}
    ELSE {"DataReceived", "StreamEnded", "StreamReset"}

\* the position in queue q of the first event of one of the types, 0 if none
FirstIndex(q, types) ==
    IF \E i \in 1..Len(q) : q[i].type \in types
    THEN CHOOSE i \in 1..Len(q) :
            /\ q[i].type \in types
            /\ \A j \in 1..(i - 1) : q[j].type \notin types
    ELSE 0

\* The loops of send() (lines 46-49) and body_iter (lines 114-120) around
\* receive_event (lines 125, 135): events are popped from the task's queue up to
\* the first one the caller stops at; with the queue exhausted the task reads.
ReceiveLoop(t, ctx) ==
    \E q \in {events[task[t].stream_id]} :
      \E k \in {FirstIndex(q, StopsAt(ctx))} :
        IF k = 0
        THEN /\ events' = [events EXCEPT ![task[t].stream_id] = <<>>]
             /\ task' = [task EXCEPT ![t].got = @ \o q,
                                     ![t].pc = IF ctx = "send" THEN "r_send" ELSE "r_body"]
        ELSE /\ events' = [events EXCEPT ![task[t].stream_id] = SubSeq(q, k + 1, Len(q))]
             /\ task' = [task EXCEPT
                           ![t].got = @ \o SubSeq(q, 1, k),
                           ![t].resp = "open",
                           ![t].pc = IF ctx = "send" \/ q[k].type = "DataReceived"
                                     THEN "returned" ELSE "ended"]

\* send() has been called for the task and its response is not closed
InFlight(u) == task[u].pc # "init" /\ task[u].resp # "closed"

\* send(), lines 32-35, up to the write of send_headers: the connection is
\* initiated, the codec opens the next stream and the HEADERS frame is handed to
\* the writer
H2SendHeaders(t) ==
    /\ task[t].pc = "init"
    /\ \E sid \in {h2_state.next_stream_id} :
         /\ h2_state' = [h2_state EXCEPT !.next_stream_id = @ + 2,
                                         !.window[sid] = h2_state.initial_window]
         /\ task' = [task EXCEPT ![t].pc = "w_headers", ![t].stream_id = sid]
         /\ peer' = [peer EXCEPT ![sid].state = "open"]
         /\ frames' = [frames EXCEPT ![sid] = Append(@, Frame("HEADERS", 0, FALSE))]
    /\ initialized' = TRUE
    /\ concurrent' = (concurrent \/ \E u \in Tasks \ {t} : InFlight(u))
    /\ UNCHANGED <<events, released, lost, foreign, reader_eof>>
    /\ UNCHANGED <<h1vars, sslvars>>

\* send(), line 36: the write of send_headers is over, the queue is registered
H2Register(t) ==
    /\ task[t].pc = "w_headers"
    /\ events' = Register(events, task[t].stream_id)
    /\ task' = [task EXCEPT ![t].pc = "body"]
    /\ UNCHANGED <<initialized, h2_state, peer, released, lost, foreign, concurrent, frames,
                   reader_eof>>
    /\ UNCHANGED <<h1vars, sslvars>>

\* send_data, lines 98-104, up to its first write: the window is read once and
\* the first chunk handed to the codec
H2SendData1(t) ==
    /\ task[t].pc = "body" /\ task[t].body # <<>>
    /\ \E data \in {Head(task[t].body)}, sid \in {task[t].stream_id} :
       \E size \in {Min(data, LocalFlowControlWindow(h2_state, sid))} :
       \E r \in {H2SendData(h2_state, sid, size)} :
         IF sid \in h2_state.closed
         THEN /\ task' = [task EXCEPT ![t] = Raise(@, "StreamClosedError")]
              /\ UNCHANGED <<h2_state, frames>>
         ELSE IF size = 0
         THEN /\ task' = [task EXCEPT ![t] = Raise(@, "ValueError")]
              /\ UNCHANGED <<h2_state, frames>>
         ELSE /\ h2_state' = r.h
              /\ frames' = [frames EXCEPT ![sid] = Append(@, Frame("DATA", size, FALSE))]
              /\ task' = [task EXCEPT ![t].pc = "w_data", ![t].data = data,
                                      ![t].chunk_size = size, ![t].idx = size,
                                      ![t].frame = [len |-> size,
                                                    window |-> h2_state.window[sid]]]
    /\ UNCHANGED <<events, initialized, peer, released, lost, foreign, concurrent, reader_eof>>
    /\ UNCHANGED <<h1vars, sslvars>>

\* send_data, lines 100-104: a write is over; the next chunk, of chunk_size bytes
\* or what is left, is handed to the codec, or the loop ends
H2SendDataNext(t) ==
    /\ task[t].pc = "w_data"
    /\ IF task[t].idx >= task[t].data
       THEN /\ task' = [task EXCEPT ![t].pc = "body", ![t].body = Tail(@), ![t].data = 0,
                                    ![t].idx = 0, ![t].chunk_size = 0, ![t].frame = NoFrame]
            /\ UNCHANGED <<h2_state, frames>>
       ELSE \E sid \in {task[t].stream_id} :
            \E size \in {Min(task[t].chunk_size, task[t].data - task[t].idx)} :
            \E r \in {H2SendData(h2_state, sid, size)} :
              /\ h2_state' = r.h
              /\ frames' = IF r.exc # "none" THEN frames
                            ELSE [frames EXCEPT ![sid] = Append(@, Frame("DATA", size, FALSE))]
              /\ task' = [task EXCEPT
                            ![t] = [(IF r.exc # "none" THEN Raise(@, r.exc)
                                     ELSE [@ EXCEPT !.idx = @ + size])
                                      EXCEPT !.frame = [len |-> size,
                                                        window |-> h2_state.window[sid]]]]
    /\ UNCHANGED <<events, initialized, peer, released, lost, foreign, concurrent, reader_eof>>
    /\ UNCHANGED <<h1vars, sslvars>>

\* end_stream, lines 106-109, up to its write
H2EndStream(t) ==
    /\ task[t].pc = "body" /\ task[t].body = <<>>
    /\ IF task[t].stream_id \in h2_state.closed
       THEN /\ task' = [task EXCEPT ![t] = Raise(@, "StreamClosedError")]
            /\ UNCHANGED frames
       ELSE /\ task' = [task EXCEPT ![t].pc = "w_end"]
            /\ frames' = [frames EXCEPT ![task[t].stream_id] = Append(@, Frame("DATA", 0, TRUE))]
    /\ UNCHANGED <<events, initialized, h2_state, peer, released, lost, foreign, concurrent,
                   reader_eof>>
    /\ UNCHANGED <<h1vars, sslvars>>

\* send(), lines 46-49: the write of end_stream is over; send() waits for
\* ResponseReceived
H2AwaitResponse(t) ==
    /\ task[t].pc = "w_end"
    /\ ReceiveLoop(t, "send")
    /\ UNCHANGED <<initialized, h2_state, peer, released, lost, foreign, concurrent, frames,
                   reader_eof>>
    /\ UNCHANGED <<h1vars, sslvars>>

\* what the server may send next on stream s; a WINDOW_UPDATE gives back credit
\* the client has used
PeerStreamEvents(s) ==
    (IF peer[s].state \in {"open", "headers"} /\ h2_state.window[s] < h2_state.initial_window
     THEN {Event("WindowUpdated", s, peer[s].sent + 1)} ELSE {})
    \cup (IF peer[s].state = "open"
          THEN {Event("ResponseReceived", s, peer[s].sent + 1),
                Event("StreamReset", s, peer[s].sent + 1)} ELSE {})
    \cup (IF peer[s].state = "headers"
          THEN {Event("StreamEnded", s, peer[s].sent + 1),
                Event("StreamReset", s, peer[s].sent + 1)} ELSE {})
    \cup (IF peer[s].state = "headers" /\ peer[s].data < MaxResponseData
          THEN {Event("DataReceived", s, peer[s].sent + 1)} ELSE {})

\* what a reader.read() may deliver: an event of a stream, or one with no stream
PeerEvents ==
    UNION {PeerStreamEvents(s) : s \in StreamIds} \cup {Event("SettingsAcknowledged", 0, 0)}

\* the server after it has sent e
PeerAfter(e) ==
    IF e.stream_id = 0 THEN peer
    ELSE [peer EXCEPT
            ![e.stream_id] =
               [state |-> CASE e.type = "ResponseReceived" -> "headers"
                            [] e.type = "StreamEnded" -> "ended"
                            [] e.type = "StreamReset" -> "reset"
                            [] OTHER -> @.state,
                sent |-> @.sent + 1,
                data |-> IF e.type = "DataReceived" THEN @.data + 1 ELSE @.data]]

\* receive_event, lines 126-133: a read is over; the codec takes the bytes, the
\* events are put on the queues of their streams and the codec's own frames are
\* handed to the writer
H2Read(t) ==
    /\ task[t].pc \in {"r_send", "r_body"} /\ ~reader_eof
    /\ \E e \in PeerEvents :
       \E r \in {Route(events, e, task[t].stream_id)} :
         /\ peer' = PeerAfter(e)
         /\ h2_state' = H2ReceiveData(h2_state, e)
         /\ events' = r.events
         /\ task' = [task EXCEPT
                       ![t] = IF ~r.ok THEN [Raise(@, "KeyError") EXCEPT !.key = e.stream_id]
                              ELSE [@ EXCEPT !.pc = IF @ = "r_send" THEN "w_send"
                                                    ELSE "w_body"]]
         /\ lost' = IF r.ok THEN lost ELSE lost \cup {e.stream_id}
         /\ foreign' = IF r.ok /\ e.stream_id \notin {0, task[t].stream_id}
                       THEN foreign \cup {e.stream_id} ELSE foreign
    /\ UNCHANGED <<initialized, released, concurrent, frames, reader_eof>>
    /\ UNCHANGED <<h1vars, sslvars>>

\* receive_event, line 126: nothing arrives within the read timeout
H2ReadTimeout(t) ==
    /\ task[t].pc \in {"r_send", "r_body"} /\ ~reader_eof
    /\ task' = [task EXCEPT ![t] = Raise(@, "ReadTimeout")]
    /\ UNCHANGED <<events, initialized, h2_state, peer, released, lost, foreign, concurrent, frames,
                   reader_eof>>
    /\ UNCHANGED <<h1vars, sslvars>>

\* receive_event, lines 126-133, on a closed transport: reader.read returns b"" at
\* once, receive_data(b"") yields no event, and what the codec has to send (nothing)
\* is handed to the writer
H2ReadEof(t) ==
    /\ task[t].pc \in {"r_send", "r_body"} /\ reader_eof
    /\ task' = [task EXCEPT ![t].pc = IF @ = "r_send" THEN "w_send" ELSE "w_body"]
    /\ UNCHANGED <<events, initialized, h2_state, peer, released, lost, foreign, concurrent,
                   frames, reader_eof>>
    /\ UNCHANGED <<h1vars, sslvars>>

\* the peer closes the transport
H2PeerCloses ==
    /\ ~reader_eof
    /\ reader_eof' = TRUE
    /\ UNCHANGED <<events, initialized, h2_state, task, peer, released, lost, foreign,
                   concurrent, frames>>
    /\ UNCHANGED <<h1vars, sslvars>>

\* receive_event, lines 133-135 and 125: the write is over, the loop goes on
H2Flushed(t) ==
    /\ task[t].pc \in {"w_send", "w_body"}
    /\ ReceiveLoop(t, IF task[t].pc = "w_send" THEN "send" ELSE "body")
    /\ UNCHANGED <<initialized, h2_state, peer, released, lost, foreign, concurrent, frames,
                   reader_eof>>
    /\ UNCHANGED <<h1vars, sslvars>>

\* body_iter, lines 114-120: the consumer asks for the next chunk of the body
H2BodyNext(t) ==
    /\ task[t].pc = "returned" /\ task[t].resp = "open"
    /\ ReceiveLoop(t, "body")
    /\ UNCHANGED <<initialized, h2_state, peer, released, lost, foreign, concurrent, frames,
                   reader_eof>>
    /\ UNCHANGED <<h1vars, sslvars>>

\* AsyncResponse.close(): the response is closed once, its body consumed,
\* failed or abandoned, and calls on_close, response_closed(stream_id)
H2ResponseClose(t) ==
    /\ task[t].pc \in {"returned", "ended", "failed"} /\ task[t].resp = "open"
    /\ \E r \in {H2ResponseClosed(events, task[t].stream_id)} :
         /\ events' = r.events
         /\ released' = released + r.released
    /\ task' = [task EXCEPT ![t].resp = "closed"]
    /\ UNCHANGED <<initialized, h2_state, peer, lost, foreign, concurrent, frames,
                   reader_eof>>
    /\ UNCHANGED <<h1vars, sslvars>>

NextH2 ==
    \E t \in Tasks :
        \/ H2SendHeaders(t)
        \/ H2Register(t)
        \/ H2SendData1(t)
        \/ H2SendDataNext(t)
        \/ H2EndStream(t)
        \/ H2AwaitResponse(t)
        \/ H2Read(t)
        \/ H2ReadTimeout(t)
        \/ H2Flushed(t)
        \/ H2BodyNext(t)
        \/ H2ResponseClose(t)

\* the requests of the tasks have no body
NoBodies == \A t \in Tasks : task[t].body = <<>>

\* the task whose request may have a body
Sender == CHOOSE t \in Tasks : TRUE

\* the sender's request has any body, the other requests have none
OneBody == \A t \in Tasks \ {Sender} : task[t].body = <<>>

\* send() without the steps of a request body
NextH2NoBody ==
    \E t \in Tasks :
        \/ H2SendHeaders(t)
        \/ H2Register(t)
        \/ H2EndStream(t)
        \/ H2AwaitResponse(t)
        \/ H2Read(t)
        \/ H2ReadTimeout(t)
        \/ H2Flushed(t)
        \/ H2BodyNext(t)
        \/ H2ResponseClose(t)

(***************************************************************************)
(* SSLConfig (src/http3/config.py).                                        *)
(*                                                                         *)
(* Python values are written as strings: None, the booleans True and       *)
(* False, the path of a CA bundle, a certificate file, a (certificate,     *)
(* key) pair.  Python's == on these values is equality of the strings.     *)
(* An instance is its index in heap; an SSL context is its index in made.  *)
(***************************************************************************)
None == "None"

\* CertTypes: a path, or a pair of paths
Certs == {"client.pem", "(client.pem, client.key)"}

\* VerifyTypes: a bool, or the path of a CA bundle
Verifies == {"True", "False", "ca.pem"}

\* SSLConfig.__init__; ssl_context = 0: the instance has no such attribute yet
SSLConfig(cert, verify) == [cert |-> cert, verify |-> verify, ssl_context |-> 0]

\* SSLConfig.__eq__
Eq(a, b) == a.cert = b.cert /\ a.verify = b.verify

\* a with_overrides that compares the certificate only
WithOverridesCertOnly(self, cert, verify) ==
    LET Result(c, v) == IF c = self.cert THEN [same |-> TRUE, new |-> self]
                        ELSE [same |-> FALSE, new |-> SSLConfig(c, v)]
    IN  Result(IF cert = None THEN self.cert ELSE cert,
               IF verify = None THEN self.verify ELSE verify)

\* SSLConfig.with_overrides: same = TRUE: self is returned, else the instance new
WithOverrides(self, cert, verify) ==
    LET Result(c, v) == IF c = self.cert /\ v = self.verify
                        THEN [same |-> TRUE, new |-> self]
                        ELSE [same |-> FALSE, new |-> SSLConfig(c, v)]
    IN  Result(IF cert = None THEN self.cert ELSE cert,
               IF verify = None THEN self.verify ELSE verify)

\* `not self.verify`
Falsy(v) == v = "False"

\* load_ssl_context_verify may raise IOError: the CA bundle path does not exist
MayRaiseIOError(v) == v \notin {"True", "False"}

NoCall == [self |-> 0, cert |-> None, verify |-> None, result |-> 0]

InitSSL ==
    /\ \E cert \in Certs \cup {None}, verify \in Verifies :
         heap = <<SSLConfig(cert, verify)>>
    /\ last_override = NoCall
    /\ loader = [t \in Tasks |-> [pc |-> "idle", self |-> 0, ctx |-> 0, calls |-> 0]]
    /\ made = <<>>

\* a caller calls self.with_overrides(cert, verify) on an instance
Override ==
    /\ \E self \in DOMAIN heap, cert \in Certs \cup {None}, verify \in Verifies \cup {None} :
       \E r \in {WithOverrides(heap[self], cert, verify)} :
         /\ r.same \/ Len(heap) < MaxConfigs
         /\ heap' = IF r.same THEN heap ELSE Append(heap, r.new)
         /\ last_override' = [self |-> self, cert |-> cert, verify |-> verify,
                            result |-> IF r.same THEN self ELSE Len(heap) + 1]
    /\ UNCHANGED <<loader, made>>
    /\ UNCHANGED <<h1vars, h2vars>>

\* load_ssl_context, lines 63-73, up to its await: a cached context is returned;
\* without verification the context is built at once; else the build is handed
\* to the executor
LoadCall(t) ==
    /\ loader[t].pc \in {"idle", "returned", "failed"} /\ loader[t].calls < MaxLoads
    /\ \E self \in DOMAIN heap :
         IF heap[self].ssl_context # 0
         THEN /\ loader' = [loader EXCEPT ![t] = [pc |-> "returned", self |-> self,
                                                  ctx |-> heap[self].ssl_context,
                                                  calls |-> @.calls + 1]]
              /\ UNCHANGED <<heap, made>>
         ELSE IF Falsy(heap[self].verify)
         THEN /\ made' = Append(made, self)
              /\ heap' = [heap EXCEPT ![self].ssl_context = Len(made) + 1]
              /\ loader' = [loader EXCEPT ![t] = [pc |-> "returned", self |-> self,
                                                  ctx |-> Len(made) + 1,
                                                  calls |-> @.calls + 1]]
         ELSE /\ loader' = [loader EXCEPT ![t] = [pc |-> "executor", self |-> self,
                                                  ctx |-> 0, calls |-> @.calls + 1]]
              /\ UNCHANGED <<heap, made>>
    /\ UNCHANGED last_override
    /\ UNCHANGED <<h1vars, h2vars>>

\* load_ssl_context, lines 69-73: load_ssl_context_verify has run in the executor;
\* its context is stored on the instance and returned, or its IOError raised
LoadBuilt(t) ==
    /\ loader[t].pc = "executor"
    /\ \E self \in {loader[t].self} :
         \/ /\ made' = Append(made, self)
            /\ heap' = [heap EXCEPT ![self].ssl_context = Len(made) + 1]
            /\ loader' = [loader EXCEPT ![t].pc = "returned", ![t].ctx = Len(made) + 1]
         \/ /\ MayRaiseIOError(heap[self].verify)
            /\ loader' = [loader EXCEPT ![t].pc = "failed"]
            /\ UNCHANGED <<heap, made>>
    /\ UNCHANGED last_override
    /\ UNCHANGED <<h1vars, h2vars>>

\* callers of with_overrides
NextOverrides == Override

\* concurrent callers of load_ssl_context
NextLoads == \E t \in Tasks : LoadCall(t) \/ LoadBuilt(t)

\* the SSLConfig of a connection that is not under study
DefaultSSL == InitSSL /\ heap = <<SSLConfig(None, "True")>>

\* both connections as constructed; requests without body use no flow-control
\* credit: one window stands for all
InitNoBody ==
    InitH1 /\ InitH2 /\ NoBodies /\ h2_state.initial_window = MaxWindow /\ DefaultSSL

\* both connections as constructed, the sender's request with any body
InitOneBody == InitH1 /\ InitH2 /\ OneBody /\ DefaultSSL

\* an SSLConfig as constructed, with any certificate and verification
InitConfig ==
    InitH1 /\ InitH2 /\ NoBodies /\ h2_state.initial_window = MaxWindow /\ InitSSL

\* SSLConfig instances derived from one another by with_overrides
SpecSSLConfig == InitConfig /\ [][NextOverrides]_vars

\* an SSLConfig whose context is loaded by concurrent tasks
SpecSSLContext == InitConfig /\ [][NextLoads]_vars

\* an HTTP/1.1 connection in use
SpecH1 == InitNoBody /\ [][NextH1]_vars

\* an HTTP/2 connection in use by concurrent tasks whose requests have no body
SpecH2 == InitNoBody /\ [][NextH2NoBody]_vars

\* the steps a coroutine takes by itself once the event loop resumes it
TaskStep(t) ==
    \/ H2Register(t)
    \/ H2EndStream(t)
    \/ H2AwaitResponse(t)
    \/ H2Read(t)
    \/ H2ReadEof(t)
    \/ H2Flushed(t)

\* body-less requests on a transport the peer may close
NextH2Eof ==
    \/ H2PeerCloses
    \/ \E t \in Tasks :
        \/ H2SendHeaders(t)
        \/ H2Register(t)
        \/ H2EndStream(t)
        \/ H2AwaitResponse(t)
        \/ H2Read(t)
        \/ H2ReadEof(t)
        \/ H2ReadTimeout(t)
        \/ H2Flushed(t)
        \/ H2BodyNext(t)
        \/ H2ResponseClose(t)

\* an HTTP/2 connection whose transport the peer may close; the event loop
\* resumes every coroutine that can run (a read of a closed transport, like a
\* write, completes at once)
SpecH2Eof ==
    InitNoBody /\ [][NextH2Eof]_vars /\ \A t \in Tasks : WF_vars(TaskStep(t))

\* an HTTP/2 connection in use by concurrent tasks, one of which sends a body
SpecH2Body == InitOneBody /\ [][NextH2]_vars

(***************************************************************************)
(* HTTP11Connection: properties.                                           *)
(***************************************************************************)
RequestEvent == [type |-> "Request", close |-> FALSE]

\* the codec accepts a new request: a send() started now does not fail on the
\* connection's own state
AcceptsRequest(s) == ~H11Send(s, RequestEvent).raised

\* C1: on one HTTP11Connection the number of on_release calls equals the number
\* of responses returned by send() and then closed; a send() that fails returns
\* no response and releases nothing; and on_release runs after the
\* reuse-or-close decision: it finds the connection restarted or closed.
C1_ReleaseOncePerClosedResponse ==
    /\ n_release = n_closed
    /\ n_closed <= n_returned
    /\ n_returned <= n_sends
    /\ release_seen \in {"none", "reusable", "closed"}
    /\ (n_release > 0 => release_seen # "none")

\* two responses closed and released, then a send() that failed without a response
C1_Witness ==
    /\ n_release = 2 /\ n_closed = 2 /\ n_sends = 3
    /\ send_result \in {"ReadTimeout", "WriteTimeout", "RemoteProtocolError"}
    /\ response.state = "none"

\* the step that closes a response
ClosesResponse == n_closed' = n_closed + 1

\* C2: when a response is closed, if both sides of the codec are DONE the codec
\* starts the next cycle, the transport is not closed, is_closed stays false and
\* the connection accepts the next send; otherwise the transport is closed.
C2_ReuseOrClose ==
    [][ClosesResponse =>
          IF h11_state.our_state = "DONE" /\ h11_state.their_state = "DONE"
          THEN /\ h11_state'.our_state = "IDLE" /\ h11_state'.their_state = "IDLE"
               /\ writer_closed' = writer_closed
               /\ ~IsClosed(h11_state')
               /\ AcceptsRequest(h11_state')
          ELSE writer_closed']_vars

\* a second send() on the same connection has returned a response after the
\* first response was closed with both sides DONE, the transport still open
C2_Witness ==
    /\ n_returned = 2 /\ n_closed = 1 /\ release_seen = "reusable"
    /\ ~writer_closed /\ response.state = "open"

\* C3: if the reader raises ReadTimeout while send() waits for the response,
\* send() fails with ReadTimeout, the connection is marked closed and the release
\* callback is not invoked for that exchange.
C3_ReadTimeoutClosesConnection ==
    send_result = "ReadTimeout" =>
        /\ IsClosed(h11_state)
        /\ response.state = "none" /\ n_release = n_closed

\* the framing promised more body than was received
PromisedMore(s) ==
    \/ s.reader = "content-length" /\ s.remaining > 0
    \/ s.reader = "chunked"

BodyLive == response.state = "open" /\ response.body \in {"unread", "streaming"}

\* C4: when the peer closes the transport after the response headers and before
\* EndOfMessage, the body sequence fails with RemoteProtocolError when the
\* framing promised more body (Content-Length not reached, chunked without its
\* last chunk), and ends cleanly only when the framing says no body is left
\* (Content-Length reached, or a body delimited by the close of the connection);
\* a body of a declared length never ends cleanly short of that length.
C4_PeerCloseInBody ==
    /\ [][(fin_in_body /\ BodyLive /\ ~writer_closed /\ response'.body # response.body) =>
            IF PromisedMore(h11_state) THEN response'.body = "RemoteProtocolError"
            ELSE response'.body = "ended"]_vars
    /\ [](fin_in_body /\ response.body = "ended" =>
            \/ response.framing = "http/1.0"
            \/ response.framing = "content-length" /\ response.received = response.promised)

\* the peer closed in the middle of a body of declared length and the body
\* sequence failed with RemoteProtocolError
C4_Witness ==
    /\ fin_in_body /\ response.body = "RemoteProtocolError"
    /\ response.framing = "content-length" /\ response.received < response.promised

\* C5: when the server sends one 1xx response and then a final response, send()
\* discards the 1xx and returns the status and headers of the final response,
\* and once that response is consumed and closed (keep-alive not given up, the
\* connection not closed by its owner) the connection is ready for the next send.
C5_InformationalSkipped ==
    /\ [](informational # NoEvent /\ send_result = "returned" =>
            /\ wire_final # NoEvent
            /\ response.status_code = wire_final.status_code
            /\ response.headers = wire_final.headers
            /\ response.status_code \in {200, 204})
    /\ [][(/\ ClosesResponse /\ informational # NoEvent /\ response.body = "ended"
           /\ h11_state.keep_alive /\ ~writer_closed) =>
            /\ Observed(h11_state', writer_closed') = "reusable"
            /\ AcceptsRequest(h11_state')]_vars

\* a 100 then a 204: the response returned carries 204, its body was consumed,
\* it was closed and the connection was found reusable
C5_Witness ==
    /\ informational # NoEvent /\ informational.status_code = 100
    /\ response.state = "closed" /\ response.status_code = 204
    /\ response.body = "ended" /\ release_seen = "reusable"
    /\ h11_state.our_state = "IDLE" /\ ~writer_closed

(***************************************************************************)
(* HTTP2Connection: properties.                                            *)
(***************************************************************************)
\* the streams send has opened and whose response has not been closed
OpenStreams == {task[t].stream_id : t \in {u \in Tasks : InFlight(u)}}

\* C6: in every reachable state the key set of the event map is the set of the
\* streams that send has opened and whose response is not closed yet, and no
\* event of a stream has failed to find its queue.
C6_EventMapIsOpenStreams ==
    /\ DOMAIN events = OpenStreams
    /\ lost \cap OpenStreams = {}

\* C7: every DATA frame send_data hands to the codec is no longer than the
\* flow-control window the stream has at that moment.
C7_FrameFitsWindow ==
    \A t \in Tasks : task[t].frame.len <= task[t].frame.window

\* the events the task of stream sid has received, then those waiting in its queue
Delivered(t) ==
    task[t].got \o (IF task[t].stream_id \in DOMAIN events
                    THEN events[task[t].stream_id] ELSE <<>>)

C9_ConcurrentSendsReleaseOnce ==
    (concurrent /\ \A t \in Tasks : task[t].resp = "closed")
        => (DOMAIN events = {} /\ released = 1)

\* the task has received a StreamReset for its stream before any ResponseReceived
ResetBeforeResponse(t) ==
    \E i \in 1..Len(task[t].got) :
        /\ task[t].got[i].type = "StreamReset"
        /\ \A j \in 1..i : task[t].got[j].type # "ResponseReceived"

\* C10: a send that has received a StreamReset for its stream before any
\* ResponseReceived has failed with ProtocolError; a body sequence that has
\* received a StreamReset has ended.
C10_StreamResetEndsTheExchange ==
    \A t \in Tasks :
        /\ ResetBeforeResponse(t) => (task[t].pc = "failed" /\ task[t].exc = "ProtocolError")
        /\ (Len(task[t].got) > 0 /\ task[t].got[Len(task[t].got)].type = "StreamReset"
              /\ ~ResetBeforeResponse(t))
              => task[t].pc = "ended"

(***************************************************************************)
(* SSLConfig: properties.                                                  *)
(***************************************************************************)
\* the contexts built by instance self
BuiltBy(self) == {i \in DOMAIN made : made[i] = self}

\* C11: an instance builds its SSL context at most once, and all the
\* load_ssl_context calls made on one instance, concurrent or later, return the
\* same context object.
C11_ContextBuiltOnce ==
    /\ \A self \in DOMAIN heap : Cardinality(BuiltBy(self)) <= 1
    /\ \A t, u \in Tasks :
          (/\ loader[t].pc = "returned" /\ loader[u].pc = "returned"
           /\ loader[t].self = loader[u].self)
             => loader[t].ctx = loader[u].ctx

\* the value a field has after an override: None leaves the field as it is
Merged(old, arg) == IF arg = None THEN old ELSE arg

\* a with_overrides call has just returned
Overrode == last_override' # last_override

\* C13: c.with_overrides(cert, verify) returns c itself exactly when the merged
\* values are c's own; otherwise it returns a new instance holding the merged
\* values; c and every other instance are left as they were.
C13_WithOverrides ==
    [][Overrode =>
         LET c == last_override'.self
             r == last_override'.result
         IN  /\ (r = c) <=> Eq(heap[c], [cert |-> Merged(heap[c].cert, last_override'.cert),
                                         verify |-> Merged(heap[c].verify, last_override'.verify)])
             /\ r # c => /\ r \notin DOMAIN heap
                         /\ r \in DOMAIN heap'
                         /\ heap'[r].cert = Merged(heap[c].cert, last_override'.cert)
                         /\ heap'[r].verify = Merged(heap[c].verify, last_override'.verify)
             /\ r = c => heap' = heap
             /\ \A i \in DOMAIN heap : heap'[i] = heap[i]]_vars

\* C13, its case: an override that names both fields and changes one of them
\* (the verification) has returned a new instance.
C13_Witness ==
    /\ last_override.self # 0
    /\ last_override.cert # None /\ last_override.verify # None
    /\ last_override.result # last_override.self
    /\ heap[last_override.result].cert = heap[last_override.self].cert
    /\ heap[last_override.result].verify # heap[last_override.self].verify

(***************************************************************************)
(* HTTP2Connection: framing, flow control, writes, independence, closure.  *)
(***************************************************************************)
\* the positions of the frames of stream s that carry END_STREAM
EndStreams(s) == {i \in DOMAIN frames[s] : frames[s][i].end_stream}

\* the request on stream s has body bytes
HasBodyBytes(s) == \E i \in DOMAIN frames[s] : frames[s][i].type = "DATA" /\ frames[s][i].len > 0

\* C12: a stream carries at most one END_STREAM; once it is sent, a request with
\* no body bytes consists of one HEADERS frame carrying END_STREAM, and a request
\* with body bytes ends with a DATA frame that holds body bytes and carries
\* END_STREAM.
C12_EndStreamPlacement ==
    \A s \in StreamIds :
        /\ Cardinality(EndStreams(s)) <= 1
        /\ EndStreams(s) # {} =>
             IF HasBodyBytes(s)
             THEN /\ frames[s][Len(frames[s])].type = "DATA"
                  /\ frames[s][Len(frames[s])].len > 0
                  /\ frames[s][Len(frames[s])].end_stream
             ELSE frames[s] = <<Frame("HEADERS", 0, TRUE)>>

\* C14: send_data, called with a chunk that holds bytes, does not fail for want
\* of window: it raises neither the ValueError of a zero window nor the codec's
\* FlowControlError of a window used up part-way through the chunk.
C14_SendDataWaitsForWindow ==
    \A t \in Tasks :
        (task[t].pc = "failed" /\ task[t].body # <<>> /\ Head(task[t].body) > 0)
            => task[t].exc \notin {"ValueError", "FlowControlError"}

\* the awaits of writer.write
WritePcs == {"w_headers", "w_data", "w_end", "w_send", "w_body"}

\* C15: at most one task is inside writer.write at any time.
C15_WritesMutuallyExclusive ==
    Cardinality({t \in Tasks : task[t].pc \in WritePcs}) <= 1

\* C16: no send or body read fails on an event of another stream whose response
\* has been closed.
C16_ClosedStreamHarmless ==
    \A t, u \in Tasks :
        (t # u /\ task[t].exc = "KeyError" /\ task[t].key = task[u].stream_id)
            => task[u].resp # "closed"

\* the task is in receive_event, for send or for body_iter
Receiving(t) == task[t].pc \in {"r_send", "w_send", "r_body", "w_body"}

\* C18: once the peer has closed the transport, a task that is in receive_event
\* eventually leaves it, returning or raising.
C18_ReceiveEndsAfterEof ==
    \A t \in Tasks : (reader_eof /\ Receiving(t)) ~> ~Receiving(t)

(***************************************************************************)
(* HTTP11Connection: errors and closure.                                   *)
(***************************************************************************)
\* the errors of the ProtocolError kind
ProtocolErrors == {"LocalProtocolError", "RemoteProtocolError"}

\* C17: a send to which the server has sent a second informational response in
\* place of the final response has failed with a protocol error, and is_closed
\* is true.
C17_SecondInformationalIsFatal ==
    (wire_final.type = "InformationalResponse" /\ pc = "idle")
        => (send_result \in ProtocolErrors /\ IsClosed(h11_state))

\* C19: a call of close(), whatever the state of the codec, leaves the writer
\* closed and is_closed true.
C19_CloseClosesWriter ==
    [][CloseConnection => (writer_closed' /\ IsClosed(h11_state'))]_vars

\* both sides of the codec are ready for the next exchange
BothIdle(s) == s.our_state = "IDLE" /\ s.their_state = "IDLE"

\* C20: when response_closed has completed, either both sides of the codec are
\* IDLE and the next Request is accepted, or is_closed is true, never both and
\* never neither.
C20_IdleOrClosed ==
    [][ClosesResponse =>
          /\ BothIdle(h11_state') \/ IsClosed(h11_state')
          /\ ~(BothIdle(h11_state') /\ IsClosed(h11_state'))
          /\ ~IsClosed(h11_state') => AcceptsRequest(h11_state')]_vars

\* C20, its cases in one run: a first response was consumed and closed with the
\* connection found reusable, and a second one, abandoned in the middle of its
\* body, was closed with the connection found closed.
C20_Witness ==
    /\ n_closed = 2 /\ n_release = 2
    /\ response.state = "closed" /\ response.body = "streaming"
    /\ release_seen = "closed" /\ IsClosed(h11_state) /\ writer_closed

=============================================================================
